---- MODULE Spec2Model ----
(***************************************************************************)
(* State-machine model of the Xeggex order-book data source:               *)
(*   xeggex_api_order_book_data_source.py  (symbol registry, listeners)    *)
(*   xeggex_utils.py                       (retrying REST client)          *)
(*   xeggex_order_book.py                  (message normalizers)           *)
(***************************************************************************)
EXTENDS Integers, Sequences, FiniteSets, TLC

(***************************************************************************)
(* Bounds of the model.                                                    *)
(***************************************************************************)
NCallers == 2
MaxListing == 2
MaxIter == 2
MaxMsgs == 2
MaxTrades == 2
MaxOut == 3
MaxCycles == 1

(***************************************************************************)
(* Values.                                                                 *)
(***************************************************************************)
Callers == 1..NCallers
Symbols == {"BTC/USDT", "ETH/USDT", "LTC/USDT"}
Bases == {"BTC", "ETH", "LTC"}
Quotes == {"USDT"}

\* f"{primaryAsset.ticker}-{secondaryAsset.ticker}": the pair keeps both tickers
MakePair(primary, secondary) == <<primary, secondary>>

AllPairs == {MakePair(b, q) : b \in Bases, q \in Quotes}

\* one element of the instrument listing returned by the SYMBOL endpoint; the
\* listings the registry users are answered with, and their arguments, are
\* drawn over two symbols and two base tickers
UserSymbols == {"BTC/USDT", "ETH/USDT"}
UserPairs == {MakePair(b, q) : b \in {"BTC", "ETH"}, q \in Quotes}
SymbolData == [symbol : UserSymbols, primary : {"BTC", "ETH"}, secondary : Quotes]

SeqsUpTo(S, n) == UNION {[1..k -> S] : k \in 0..n}

Listings == SeqsUpTo(SymbolData, MaxListing)

VARIABLES
    symbol_map,   \* cls._trading_pair_symbol_map: insertion-ordered dict, as a
                  \* sequence of [symbol, pair] entries with distinct symbols
    loaded,       \* whether an instrument-list call has returned a listing
    cpc,          \* per registry user: "idle", "fetching" or "done"
    cop,          \* per registry user: the operation it runs
    carg,         \* per registry user: the argument of the operation
    cres,         \* per registry user: the result or the error raised
    rpc,          \* api_call_with_retries: "idle", "request", "closing",
                  \* "sleeping", "returned" or "raised"
    try_count,    \* api_call_with_retries: its try_count parameter
    rhist,        \* what aiohttp_response_with_errors returned, attempt by attempt
    rout,         \* the value returned or the payload of the XeggexAPIError raised
    rshared,      \* whether the caller passed shared_client
    ropen,        \* private ClientSessions created and not yet closed
    lpc,          \* per loop: the suspension point it is at
    iter,         \* per listener: iterations of `while True` started
    ws,           \* per listener: the local variable ws (0: not bound yet)
    sess,         \* the XeggexWebsocket objects created so far
    idx,          \* per loop: position in `for pair in self._trading_pairs`
    pend,         \* per listener: the exception the finally block re-raises
    cancelAt,     \* per loop: where the task's cancellation was delivered
    exit,         \* per loop: the exception that left the loop
    output,       \* the output queue
    polled,       \* fallback poller: this cycle's outcome, pair by pair
    cycle,        \* fallback poller: cycles started
    norm,         \* a raw payload and, once a normalizer was called on it, the call
    slept         \* the values retry_sleep_time returned, retry by retry

regVars == <<symbol_map, loaded>>
callVars == <<cpc, cop, carg, cres>>
restVars == <<rpc, try_count, rhist, rout, rshared, ropen>>
loopVars == <<lpc, iter, ws, sess, idx, pend, cancelAt, exit, output, polled, cycle>>
pureVars == <<norm, slept>>
vars == <<symbol_map, loaded, cpc, cop, carg, cres,
          rpc, try_count, rhist, rout, rshared, ropen,
          lpc, iter, ws, sess, idx, pend, cancelAt, exit, output, polled, cycle,
          norm, slept>>

(***************************************************************************)
(* Symbol registry: pure parts.                                            *)
(***************************************************************************)
Keys(m) == {m[i].symbol : i \in 1..Len(m)}

Values(m) == {m[i].pair : i \in 1..Len(m)}

HasKey(m, symbol) == symbol \in Keys(m)

IndexOf(m, symbol) == CHOOSE i \in 1..Len(m) : m[i].symbol = symbol

\* m[symbol] = pair on an insertion-ordered dict: an existing key keeps its
\* position and takes the new value, a new key goes to the end
DictSet(m, symbol, pair) ==
    IF HasKey(m, symbol)
    THEN [m EXCEPT ![IndexOf(m, symbol)] = [symbol |-> symbol, pair |-> pair]]
    ELSE Append(m, [symbol |-> symbol, pair |-> pair])

RECURSIVE BuildFrom(_, _)
BuildFrom(m, listing) ==
    IF listing = <<>>
    THEN m
    ELSE BuildFrom(DictSet(m, Head(listing).symbol,
                           MakePair(Head(listing).primary, Head(listing).secondary)),
                   Tail(listing))

\* the dict comprehension of init_trading_pair_symbols
BuildMap(listing) == BuildFrom(<<>>, listing)

\* the comprehension with its condition dropped
SymbolsOf_NoFilter(m, trading_pair) == [i \in 1..Len(m) |-> m[i].symbol]

\* [symbol for symbol, pair in symbol_map.items() if pair == trading_pair]
SymbolsOf(m, trading_pair) ==
    LET Match(e) == e.pair = trading_pair
        hits == SelectSeq(m, Match)
    IN  [i \in 1..Len(hits) |-> hits[i].symbol]

NoValue == [err |-> "none"]

\* exchange_symbol_associated_to_pair, given the map trading_pair_symbol_map returned
ExchangeSymbolOf(m, trading_pair) ==
    LET symbols == SymbolsOf(m, trading_pair)
    IN  IF symbols # <<>>
        THEN [err |-> "none", symbol |-> symbols[1]]
        ELSE [err |-> "ValueError"]

\* trading_pair_associated_to_exchange_symbol, given the map: symbol_map[symbol]
TradingPairOf(m, symbol) ==
    IF HasKey(m, symbol)
    THEN [err |-> "none", pair |-> m[IndexOf(m, symbol)].pair]
    ELSE [err |-> "KeyError"]

\* the emptiness test inverted
NeedsInit_Inverted(m) == m # <<>>

\* if not cls._trading_pair_symbol_map
NeedsInit(m) == m = <<>>

Ops == {"to_symbol", "to_pair", "map"}

ArgsOf(op) ==
    CASE op = "to_symbol" -> UserPairs
      [] op = "to_pair" -> UserSymbols
      [] op = "map" -> {"-"}

\* what the operation returns once trading_pair_symbol_map has returned m
Finish(op, arg, m) ==
    CASE op = "to_symbol" -> ExchangeSymbolOf(m, arg)
      [] op = "to_pair" -> TradingPairOf(m, arg)
      [] op = "map" -> [err |-> "none", map |-> m]

(***************************************************************************)
(* Symbol registry: users.  A user runs one of                             *)
(*   exchange_symbol_associated_to_pair, trading_pair_associated_to_       *)
(*   exchange_symbol, trading_pair_symbol_map / fetch_trading_pairs;       *)
(* each starts with trading_pair_symbol_map, which suspends only while     *)
(* the instrument list is being fetched.                                   *)
(***************************************************************************)
InitRegistry ==
    /\ symbol_map = <<>>
    /\ loaded = FALSE

InitCallers ==
    /\ cpc = [c \in Callers |-> "idle"]
    /\ cop = [c \in Callers |-> "map"]
    /\ carg = [c \in Callers |-> "-"]
    /\ cres = [c \in Callers |-> NoValue]

\* the call up to its first suspension: the emptiness test, then either the
\* lookup on the cached map or the start of init_trading_pair_symbols
Call(c, op, arg) ==
    /\ cpc[c] = "idle"
    /\ cop' = [cop EXCEPT ![c] = op]
    /\ carg' = [carg EXCEPT ![c] = arg]
    /\ IF NeedsInit(symbol_map)
       THEN /\ cpc' = [cpc EXCEPT ![c] = "fetching"]
            /\ UNCHANGED <<symbol_map, loaded, cres>>
       ELSE /\ cpc' = [cpc EXCEPT ![c] = "done"]
            /\ cres' = [cres EXCEPT ![c] = Finish(op, arg, symbol_map)]
            /\ UNCHANGED <<symbol_map, loaded>>
    /\ UNCHANGED <<restVars, loopVars, pureVars>>

\* api_call_with_retries returned the listing: the class variable is replaced,
\* trading_pair_symbol_map returns it and the operation finishes on it
FetchReturn(c, listing) ==
    /\ cpc[c] = "fetching"
    /\ symbol_map' = BuildMap(listing)
    /\ loaded' = TRUE
    /\ cpc' = [cpc EXCEPT ![c] = "done"]
    /\ cres' = [cres EXCEPT ![c] = Finish(cop[c], carg[c], symbol_map')]
    /\ UNCHANGED <<cop, carg>>
    /\ UNCHANGED <<restVars, loopVars, pureVars>>

\* api_call_with_retries raised XeggexAPIError: nothing is assigned
FetchFail(c) ==
    /\ cpc[c] = "fetching"
    /\ cpc' = [cpc EXCEPT ![c] = "done"]
    /\ cres' = [cres EXCEPT ![c] = [err |-> "XeggexAPIError"]]
    /\ UNCHANGED <<symbol_map, loaded, cop, carg>>
    /\ UNCHANGED <<restVars, loopVars, pureVars>>

\* the user takes its result and is free to call again
Return(c) ==
    /\ cpc[c] = "done"
    /\ cpc' = [cpc EXCEPT ![c] = "idle"]
    /\ cop' = [cop EXCEPT ![c] = "map"]
    /\ carg' = [carg EXCEPT ![c] = "-"]
    /\ cres' = [cres EXCEPT ![c] = NoValue]
    /\ UNCHANGED <<symbol_map, loaded>>
    /\ UNCHANGED <<restVars, loopVars, pureVars>>

\* a listing element the comprehension cannot read: "symbol", "primaryAsset",
\* "secondaryAsset" or a "ticker" is missing
Malformed == [symbol |-> "?", primary |-> "?", secondary |-> "?"]

RawListings == SeqsUpTo(SymbolData \cup {Malformed}, MaxListing)

WellFormed(listing) == \A i \in 1..Len(listing) : listing[i] # Malformed

\* the elements in front of the first one that cannot be read
RECURSIVE ReadablePrefix(_)
ReadablePrefix(listing) ==
    IF listing = <<>> \/ Head(listing) = Malformed
    THEN <<>>
    ELSE <<Head(listing)>> \o ReadablePrefix(Tail(listing))

\* the class variable filled entry by entry as the listing is read
InitAssign_InPlace(old, listing) == BuildMap(ReadablePrefix(listing))

\* cls._trading_pair_symbol_map after lines 47-50: the comprehension is
\* evaluated to the end before the class variable is assigned, and an element
\* that cannot be read raises before the assignment
InitAssign(old, listing) ==
    IF WellFormed(listing) THEN BuildMap(listing) ELSE old

\* api_call_with_retries returned a listing, readable or not:
\* init_trading_pair_symbols assigns the map or raises
InitReturn(c, listing) ==
    /\ cpc[c] = "fetching"
    /\ symbol_map' = InitAssign(symbol_map, listing)
    /\ loaded' = TRUE
    /\ cpc' = [cpc EXCEPT ![c] = "done"]
    /\ cres' = [cres EXCEPT ![c] =
                   IF WellFormed(listing)
                   THEN Finish(cop[c], carg[c], symbol_map')
                   ELSE [err |-> "KeyError(listing)"]]
    /\ UNCHANGED <<cop, carg>>
    /\ UNCHANGED <<restVars, loopVars, pureVars>>

(***************************************************************************)
(* Retrying REST client (xeggex_utils.py).                                 *)
(***************************************************************************)
\* Constants.API_MAX_RETRIES; xeggex_constants.py is not among the sources
API_MAX_RETRIES == 4

\* what one HTTP attempt can meet: the transport fails, or a response arrives
\* with a status and a body that is
\*   "json"        structured data without an error field
\*   "json_error"  structured data with an error field
\*   "json_null"   the JSON value null
\*   "text"        not JSON, readable as text
\*   "unreadable"  not JSON, and reading it fails too
Statuses == {"200", "201", "404"}
Bodies == {"json", "json_error", "json_null", "text", "unreadable"}
Responses == [transport : {"ok"}, status : Statuses, body : Bodies]
                \cup {[transport |-> "fail", status |-> "None", body |-> "unreadable"]}

\* TempFailure with the test of the error field dropped
ResponseWithErrors_StatusOnly(resp) ==
    IF resp.transport = "fail"
    THEN [http_status |-> "None", parsed_response |-> "None", request_errors |-> TRUE]
    ELSE LET json_ok == resp.body \in {"json", "json_error", "json_null"}
             parsed == CASE resp.body = "json" -> "json"
                         [] resp.body = "json_error" -> "json_error"
                         [] resp.body = "json_null" -> "None"
                         [] resp.body = "text" -> "text"
                         [] resp.body = "unreadable" -> "None"
             TempFailure == parsed = "None" \/ resp.status \notin {"200", "201"}
         IN  [http_status |-> resp.status,
              parsed_response |-> IF TempFailure /\ parsed = "None" THEN "reason" ELSE parsed,
              request_errors |-> (~json_ok) \/ TempFailure]

\* aiohttp_response_with_errors: (http_status, parsed_response, request_errors)
ResponseWithErrors(resp) ==
    IF resp.transport = "fail"
    THEN [http_status |-> "None", parsed_response |-> "None", request_errors |-> TRUE]
    ELSE LET json_ok == resp.body \in {"json", "json_error", "json_null"}
             parsed == CASE resp.body = "json" -> "json"
                         [] resp.body = "json_error" -> "json_error"
                         [] resp.body = "json_null" -> "None"
                         [] resp.body = "text" -> "text"
                         [] resp.body = "unreadable" -> "None"
             TempFailure == \/ parsed = "None"
                            \/ (resp.status \notin {"200", "201"} /\ parsed # "json_error")
         IN  [http_status |-> resp.status,
              parsed_response |-> IF TempFailure /\ parsed = "None" THEN "reason" ELSE parsed,
              request_errors |-> (~json_ok) \/ TempFailure]

\* if request_errors or parsed_response is None
AttemptFailed(r) == r.request_errors \/ r.parsed_response = "None"

\* the retry test with <= for <
CanRetry_OffByOne(n) == n <= API_MAX_RETRIES

\* if try_count < Constants.API_MAX_RETRIES
CanRetry(n) == n < API_MAX_RETRIES

InitRest ==
    /\ rpc = "idle"
    /\ try_count = 0
    /\ rhist = <<>>
    /\ rout = "None"
    /\ rshared = FALSE
    /\ ropen = 0

\* a fresh call (try_count defaults to 0): the session is taken or created and
\* the request is sent
RestCall(shared) ==
    /\ rpc = "idle"
    /\ rpc' = "request"
    /\ try_count' = 0
    /\ rhist' = <<>>
    /\ rout' = "None"
    /\ rshared' = shared
    /\ ropen' = IF shared THEN ropen ELSE ropen + 1
    /\ UNCHANGED <<regVars, callVars, loopVars, pureVars>>

\* the code after the attempt's session is dealt with: retry, raise or return
AfterAttempt(r) ==
    IF AttemptFailed(r)
    THEN IF CanRetry(try_count)
         THEN /\ try_count' = try_count + 1
              /\ rpc' = "sleeping"
              /\ rout' = rout
         ELSE /\ rpc' = "raised"
              /\ rout' = [error |-> r.parsed_response, status |-> r.http_status]
              /\ try_count' = try_count
    ELSE /\ rpc' = "returned"
         /\ rout' = r.parsed_response
         /\ try_count' = try_count

\* aiohttp_response_with_errors returns; a shared session is left alone, a
\* private one is closed next
RestResponse(resp) ==
    /\ rpc = "request"
    /\ rhist' = Append(rhist, ResponseWithErrors(resp))
    /\ IF rshared
       THEN AfterAttempt(ResponseWithErrors(resp))
       ELSE /\ rpc' = "closing"
            /\ UNCHANGED <<try_count, rout>>
    /\ UNCHANGED <<rshared, ropen>>
    /\ UNCHANGED <<regVars, callVars, loopVars, pureVars>>

\* await http_client.close() returns
RestClosed ==
    /\ rpc = "closing"
    /\ ropen' = ropen - 1
    /\ AfterAttempt(rhist[Len(rhist)])
    /\ UNCHANGED <<rhist, rshared>>
    /\ UNCHANGED <<regVars, callVars, loopVars, pureVars>>

\* the retry sleep is over: the recursive call, with the raised try_count
RestRetry ==
    /\ rpc = "sleeping"
    /\ rpc' = "request"
    /\ ropen' = IF rshared THEN ropen ELSE ropen + 1
    /\ UNCHANGED <<try_count, rhist, rout, rshared>>
    /\ UNCHANGED <<regVars, callVars, loopVars, pureVars>>

\* the caller has the value or the error
RestDone ==
    /\ rpc \in {"returned", "raised"}
    /\ rpc' = "idle"
    /\ try_count' = 0
    /\ rhist' = <<>>
    /\ rout' = "None"
    /\ rshared' = FALSE
    /\ UNCHANGED ropen
    /\ UNCHANGED <<regVars, callVars, loopVars, pureVars>>

\* the task that awaits api_call_with_retries is cancelled. CancelledError is
\* not an Exception: raised at the request it passes both `except Exception`
\* clauses of aiohttp_response_with_errors and leaves api_call_with_retries
\* before line 106; raised in the retry sleep it finds the attempt's session
\* closed; raised inside http_client.close() it leaves the session as aiohttp
\* had it at that moment, closed or not (closed)
RestCancel(closed) ==
    /\ rpc \in {"request", "closing", "sleeping"}
    /\ closed => rpc = "closing"
    /\ rpc' = "cancelled"
    /\ ropen' = IF rpc = "closing" /\ closed THEN ropen - 1 ELSE ropen
    /\ UNCHANGED <<try_count, rhist, rout, rshared>>
    /\ UNCHANGED <<regVars, callVars, loopVars, pureVars>>

(***************************************************************************)
(* Pure functions: retry_sleep_time (xeggex_utils.py) and the normalizers  *)
(* of XeggexOrderBook (xeggex_order_book.py).                              *)
(***************************************************************************)
RECURSIVE Pow(_, _)
Pow(b, e) == IF e = 0 THEN 1 ELSE b * Pow(b, e - 1)

\* random.randint(1, 10)
Jitters == 1..10

\* retry_sleep_time called with the try_count of before the increment
retry_sleep_time_BeforeIncrement(n, r) ==
    200 + (100 + r) * (1 + Pow(n - 1, n - 1))

\* retry_sleep_time, in hundredths of a second, r being the integer drawn:
\* randSleep = 1 + r / 100, result 2 + randSleep * (1 + try_count ** try_count)
retry_sleep_time(n, r) ==
    200 + (100 + r) * (1 + Pow(n, n))

\* lines 109-111 of one call and its recursive calls: while try_count is
\* below the maximum it is raised by one and passed to retry_sleep_time
RetrySleep(r) ==
    /\ CanRetry(Len(slept))
    /\ slept' = Append(slept, retry_sleep_time(Len(slept) + 1, r))
    /\ UNCHANGED norm
    /\ UNCHANGED <<regVars, callVars, restVars, loopVars>>

\* the keys of the payloads: the raw field names of a trade, the canonical
\* ones, and the key the callers' metadata carries
RawTradeKeys == {"id", "side", "price", "quantity"}
PayloadKeys == RawTradeKeys \cup {"exchange_order_id", "trade_type", "amount", "trading_pair"}

\* a dict over PayloadKeys: each key is absent or holds a value, and a value
\* is told by the argument it came in with; None is a value
Absent == [from |-> "absent", key |-> "-"]
None == [from |-> "None", key |-> "-"]
DictOf(from, keys) ==
    [k \in PayloadKeys |-> IF k \in keys THEN [from |-> from, key |-> k] ELSE Absent]
Has(d, k) == d[k] # Absent

\* d.get(k)
Get(d, k) == IF Has(d, k) THEN d[k] ELSE None

\* d.update(e)
DictUpdate(d, e) == [k \in PayloadKeys |-> IF Has(e, k) THEN e[k] ELSE d[k]]

\* if metadata: msg.update(metadata)   (None and {} are both false)
Merge(msg, metadata) ==
    IF \E k \in PayloadKeys : Has(metadata, k) THEN DictUpdate(msg, metadata) ELSE msg

Timestamps == {"t1", "None"}

OrderBookMessage(type, content, timestamp) ==
    [message_type |-> type, content |-> content, timestamp |-> timestamp]

snapshot_message_from_exchange(msg, timestamp, metadata) ==
    OrderBookMessage("SNAPSHOT", Merge(msg, metadata), timestamp)

diff_message_from_exchange(msg, timestamp, metadata) ==
    OrderBookMessage("DIFF", Merge(msg, metadata), timestamp)

\* the trade normalizer without the update of lines 77-82
trade_message_from_exchange_NoRemap(msg, timestamp, metadata) ==
    OrderBookMessage("TRADE", Merge(msg, metadata), timestamp)

\* lines 74-88: the metadata is merged first, then the four canonical keys
\* are written from what msg.get finds in the merged dict
trade_message_from_exchange(msg, timestamp, metadata) ==
    LET merged == Merge(msg, metadata)
        canonical == [k \in PayloadKeys |->
                         CASE k = "exchange_order_id" -> Get(merged, "id")
                           [] k = "trade_type" -> Get(merged, "side")
                           [] k = "price" -> Get(merged, "price")
                           [] k = "amount" -> Get(merged, "quantity")
                           [] OTHER -> Absent]
    IN  OrderBookMessage("TRADE", DictUpdate(merged, canonical), timestamp)

Normalizers == {"snapshot", "diff", "trade"}

\* no normalizer called yet: the raw payload at hand
Payload(raw_keys) == [fn |-> "none", msg |-> DictOf("raw", raw_keys)]

InitPure ==
    /\ norm = Payload({})
    /\ slept = <<>>

\* one call of a normalizer on the raw payload at hand, with a metadata
\* mapping with the keys metadata_keys
Normalize(fn, timestamp, metadata_keys) ==
    LET msg == norm.msg
        metadata == DictOf("metadata", metadata_keys)
    IN  /\ norm.fn = "none"
        /\ norm' = [fn |-> fn, msg |-> msg, timestamp |-> timestamp, metadata |-> metadata,
                    out |-> CASE fn = "snapshot" ->
                                     snapshot_message_from_exchange(msg, timestamp, metadata)
                              [] fn = "diff" ->
                                     diff_message_from_exchange(msg, timestamp, metadata)
                              [] fn = "trade" ->
                                     trade_message_from_exchange(msg, timestamp, metadata)]
        /\ UNCHANGED slept
        /\ UNCHANGED <<regVars, callVars, restVars, loopVars>>

(***************************************************************************)
(* Synchronization pipeline: listen_for_trades, listen_for_order_book_     *)
(* diffs and listen_for_order_book_snapshots, each a task of its own.      *)
(* XeggexWebsocket and Constants are not among the sources: a session is   *)
(* created, connected, subscribed, read and disconnected, and each of      *)
(* these steps may raise.                                                  *)
(***************************************************************************)
Listeners == {"trades", "diffs"}
Poller == "snapshots"
Loops == Listeners \cup {Poller}

\* self._trading_pairs
TradingPairs == <<MakePair("BTC", "USDT"), MakePair("ETH", "USDT"), MakePair("LTC", "USDT")>>
NPairs == Len(TradingPairs)

\* listings the exchange answers the loops with: every configured pair, or
\* all but the second
FullListing ==
    <<[symbol |-> "BTC/USDT", primary |-> "BTC", secondary |-> "USDT"],
      [symbol |-> "ETH/USDT", primary |-> "ETH", secondary |-> "USDT"],
      [symbol |-> "LTC/USDT", primary |-> "LTC", secondary |-> "USDT"]>>
PartialListing ==
    <<[symbol |-> "BTC/USDT", primary |-> "BTC", secondary |-> "USDT"],
      [symbol |-> "LTC/USDT", primary |-> "LTC", secondary |-> "USDT"]>>
LoopListings == {FullListing, PartialListing}

\* the symbols the streams' messages carry: one that every listing has, one
\* that PartialListing lacks
MsgSymbols == {"BTC/USDT", "ETH/USDT"}

\* a message of the trade stream: method tag, params present or not, and in
\* params the symbol and, for each trade of params["data"], whether its
\* timestamp parses; a message the loop skips is read no further
TradeMessages ==
    [method : {"TRADES_UPDATE"}, params : {TRUE},
     symbol : MsgSymbols, trades : SeqsUpTo(BOOLEAN, MaxTrades)]
    \cup [method : {"TRADES_UPDATE"}, params : {FALSE}, symbol : {"-"}, trades : {<<>>}]
    \cup [method : {"other"}, params : BOOLEAN, symbol : {"-"}, trades : {<<>>}]

\* a trade message of a listed symbol with one well-formed trade
PlainTradeMessages ==
    {m \in TradeMessages : /\ m.method = "TRADES_UPDATE" /\ m.params
                           /\ m.symbol = "BTC/USDT" /\ m.trades = <<TRUE>>}

\* a message of the order-book stream: method tag, params present or not, and
\* in params the symbol and whether params["timestamp"] parses; a message the
\* loop skips is read no further
DiffMessages ==
    [method : {"ORDERS_SNAPSHOT", "ORDERS_UPDATE"}, params : {TRUE},
     symbol : MsgSymbols, ts_ok : BOOLEAN]
    \cup [method : {"ORDERS_SNAPSHOT", "ORDERS_UPDATE"}, params : {FALSE},
          symbol : {"-"}, ts_ok : {FALSE}]
    \cup [method : {"other"}, params : BOOLEAN, symbol : {"-"}, ts_ok : {FALSE}]

\* what get_order_book_data can end with once the request is out: the order
\* book, a body without "timestamp", or IOError
SnapshotOutcomes == {"ok", "no_timestamp", "IOError"}

\* the places where a task is suspended and a cancellation can be delivered
ListenerAwaits == {"connect", "fetching", "subscribe", "read", "sleep", "disconnect"}
PollerAwaits == {"fetching", "fetch", "pairsleep", "errsleep", "hoursleep"}

InitLoops ==
    /\ lpc = [L \in Loops |-> "top"]
    /\ iter = [L \in Listeners |-> 0]
    /\ ws = [L \in Listeners |-> 0]
    /\ sess = <<>>
    /\ idx = [L \in Loops |-> 0]
    /\ pend = [L \in Listeners |-> "none"]
    /\ cancelAt = [L \in Loops |-> "none"]
    /\ exit = [L \in Loops |-> "none"]
    /\ output = <<>>
    /\ polled = [i \in 1..NPairs |-> "none"]
    /\ cycle = 0

\* an update on the output queue: who pushed it, its kind and pair, the
\* session (or poller cycle) it came from, the number of the message on that
\* session (or of the pair), and the number of the trade in the message
Update(src, kind, pair, conn, n, k) ==
    [src |-> src, kind |-> kind, pair |-> pair, conn |-> conn, n |-> n, k |-> k]

\* output.put_nowait(msg), twice
Put_Twice(q, msg) == Append(Append(q, msg), msg)

\* output.put_nowait(msg)
Put(q, msg) == Append(q, msg)

\* the loop over the pairs left one pair early
PairPc_OneShort(i, m) ==
    IF i >= NPairs THEN "read"
    ELSE IF NeedsInit(m) THEN "fetching"
    ELSE IF ExchangeSymbolOf(m, TradingPairs[i]).err = "none" THEN "subscribe"
    ELSE "sleep"

\* where `for pair in self._trading_pairs` of a listener goes for pair i: past
\* the last pair to the message stream; on an empty map to the instrument
\* list; to the subscription; or, for a pair without symbol, to the handler
PairPc(i, m) ==
    IF i > NPairs THEN "read"
    ELSE IF NeedsInit(m) THEN "fetching"
    ELSE IF ExchangeSymbolOf(m, TradingPairs[i]).err = "none" THEN "subscribe"
    ELSE "sleep"

\* the finally block: ws.disconnect() on whatever ws is bound to; with ws
\* never bound the name lookup raises and that exception leaves the loop
GoFinally(L, p) ==
    IF ws[L] = 0
    THEN /\ lpc' = [lpc EXCEPT ![L] = "exited"]
         /\ exit' = [exit EXCEPT ![L] = "UnboundLocalError"]
         /\ UNCHANGED <<pend, sess>>
    ELSE /\ lpc' = [lpc EXCEPT ![L] = "disconnect"]
         /\ pend' = [pend EXCEPT ![L] = p]
         /\ sess' = [sess EXCEPT ![ws[L]].disc = @ + 1]
         /\ UNCHANGED exit

\* top of `while True`: ws = XeggexWebsocket(), then ws.connect() is awaited
LStart(L) ==
    /\ lpc[L] = "top"
    /\ iter[L] < MaxIter
    /\ iter' = [iter EXCEPT ![L] = @ + 1]
    /\ sess' = Append(sess, [owner |-> L, st |-> "new", subs |-> <<>>,
                             recv |-> 0, disc |-> 0])
    /\ ws' = [ws EXCEPT ![L] = Len(sess) + 1]
    /\ lpc' = [lpc EXCEPT ![L] = "connect"]
    /\ UNCHANGED <<idx, pend, cancelAt, exit, output, polled, cycle>>
    /\ UNCHANGED <<regVars, callVars, restVars, pureVars>>

\* top of `while True`: XeggexWebsocket() raises; ws keeps what it was bound to
LCreateFail(L) ==
    /\ lpc[L] = "top"
    /\ iter[L] < MaxIter
    /\ iter' = [iter EXCEPT ![L] = @ + 1]
    /\ lpc' = [lpc EXCEPT ![L] = "sleep"]
    /\ UNCHANGED <<ws, sess, idx, pend, cancelAt, exit, output, polled, cycle>>
    /\ UNCHANGED <<regVars, callVars, restVars, pureVars>>

\* ws.connect() returns: the first pair is resolved
LConnected(L) ==
    /\ lpc[L] = "connect"
    /\ sess' = [sess EXCEPT ![ws[L]].st = "open"]
    /\ idx' = [idx EXCEPT ![L] = 1]
    /\ lpc' = [lpc EXCEPT ![L] = PairPc(1, symbol_map)]
    /\ UNCHANGED <<iter, ws, pend, cancelAt, exit, output, polled, cycle>>
    /\ UNCHANGED <<regVars, callVars, restVars, pureVars>>

\* an awaited step of the try block raises: connect, the instrument list,
\* subscribe or the message stream
LStepFails(L) ==
    /\ lpc[L] \in {"connect", "fetching", "subscribe", "read"}
    /\ lpc' = [lpc EXCEPT ![L] = "sleep"]
    /\ UNCHANGED <<iter, ws, sess, idx, pend, cancelAt, exit, output, polled, cycle>>
    /\ UNCHANGED <<regVars, callVars, restVars, pureVars>>

\* the instrument list arrives while a listener resolves pair idx
LFetchReturn(L, listing) ==
    /\ lpc[L] = "fetching"
    /\ symbol_map' = BuildMap(listing)
    /\ loaded' = TRUE
    /\ lpc' = [lpc EXCEPT ![L] =
                  IF ExchangeSymbolOf(symbol_map', TradingPairs[idx[L]]).err = "none"
                  THEN "subscribe" ELSE "sleep"]
    /\ UNCHANGED <<iter, ws, sess, idx, pend, cancelAt, exit, output, polled, cycle>>
    /\ UNCHANGED <<callVars, restVars, pureVars>>

\* ws.subscribe(channel, symbol) returns: the next pair is resolved
LSubscribed(L) ==
    /\ lpc[L] = "subscribe"
    /\ sess' = [sess EXCEPT ![ws[L]].subs = Append(@, idx[L])]
    /\ idx' = [idx EXCEPT ![L] = @ + 1]
    /\ lpc' = [lpc EXCEPT ![L] = PairPc(idx[L] + 1, symbol_map)]
    /\ UNCHANGED <<iter, ws, pend, cancelAt, exit, output, polled, cycle>>
    /\ UNCHANGED <<regVars, callVars, restVars, pureVars>>

\* a trade whose timestamp does not parse left out, the later ones pushed
RECURSIVE TradeUpdates_SkipBad(_, _, _, _, _)
TradeUpdates_SkipBad(trades, k, pair, conn, n) ==
    IF k > Len(trades)
    THEN <<>>
    ELSE (IF trades[k] THEN <<Update("trades", "TRADE", pair, conn, n, k)>> ELSE <<>>)
            \o TradeUpdates_SkipBad(trades, k + 1, pair, conn, n)

\* the updates of one trade message: one per trade, up to the first trade
\* whose timestamp does not parse
RECURSIVE TradeUpdates(_, _, _, _, _)
TradeUpdates(trades, k, pair, conn, n) ==
    IF k > Len(trades) \/ ~trades[k]
    THEN <<>>
    ELSE <<Update("trades", "TRADE", pair, conn, n, k)>>
            \o TradeUpdates(trades, k + 1, pair, conn, n)

RECURSIVE PutAll(_, _)
PutAll(q, msgs) == IF msgs = <<>> THEN q ELSE PutAll(Put(q, Head(msgs)), Tail(msgs))

\* listen_for_trades, one message of `async for response in ws.on_message()`
TradeMessage(msg) ==
    LET L == "trades"
        n == sess[ws[L]].recv + 1
        skip == ~msg.params \/ msg.method # "TRADES_UPDATE"
        pair == TradingPairOf(symbol_map, msg.symbol)
        ups == IF skip \/ pair.err # "none"
               THEN <<>>
               ELSE TradeUpdates(msg.trades, 1, pair.pair, ws[L], n)
        failed == ~skip /\ (pair.err # "none" \/ \E k \in 1..Len(msg.trades) : ~msg.trades[k])
    IN  /\ lpc[L] = "read"
        /\ sess[ws[L]].recv < MaxMsgs
        /\ Len(output) + Len(ups) <= MaxOut
        /\ sess' = [sess EXCEPT ![ws[L]].recv = n]
        /\ output' = PutAll(output, ups)
        /\ lpc' = [lpc EXCEPT ![L] = IF failed THEN "sleep" ELSE "read"]
        /\ UNCHANGED <<iter, ws, idx, pend, cancelAt, exit, polled, cycle>>
        /\ UNCHANGED <<regVars, callVars, restVars, pureVars>>

\* the normalizers taken the other way round
order_book_msg_cls_Swapped(method) ==
    IF method = "ORDERS_UPDATE" THEN "SNAPSHOT" ELSE "DIFF"

\* the normalizer of a message of the order-book stream, by the kind it gives
order_book_msg_cls(method) ==
    IF method = "ORDERS_UPDATE" THEN "DIFF" ELSE "SNAPSHOT"

\* listen_for_order_book_diffs, one message of `async for response in ws.on_message()`
DiffMessage(msg) ==
    LET L == "diffs"
        n == sess[ws[L]].recv + 1
        skip == ~msg.params \/ msg.method \notin {"ORDERS_SNAPSHOT", "ORDERS_UPDATE"}
        pair == TradingPairOf(symbol_map, msg.symbol)
        failed == ~skip /\ (~msg.ts_ok \/ pair.err # "none")
        kind == order_book_msg_cls(msg.method)
    IN  /\ lpc[L] = "read"
        /\ sess[ws[L]].recv < MaxMsgs
        /\ sess' = [sess EXCEPT ![ws[L]].recv = n]
        /\ IF skip \/ failed
           THEN output' = output
           ELSE /\ Len(output) < MaxOut
                /\ output' = Put(output, Update(L, kind, pair.pair, ws[L], n, 0))
        /\ lpc' = [lpc EXCEPT ![L] = IF failed THEN "sleep" ELSE "read"]
        /\ UNCHANGED <<iter, ws, idx, pend, cancelAt, exit, polled, cycle>>
        /\ UNCHANGED <<regVars, callVars, restVars, pureVars>>

\* ws.on_message() ends without raising: the try block is left normally
LStreamEnds(L) ==
    /\ lpc[L] = "read"
    /\ GoFinally(L, "none")
    /\ UNCHANGED <<iter, ws, idx, cancelAt, output, polled, cycle>>
    /\ UNCHANGED <<regVars, callVars, restVars, pureVars>>

\* the handler's asyncio.sleep is over: on to the finally block
LSlept(L) ==
    /\ lpc[L] = "sleep"
    /\ GoFinally(L, "none")
    /\ UNCHANGED <<iter, ws, idx, cancelAt, output, polled, cycle>>
    /\ UNCHANGED <<regVars, callVars, restVars, pureVars>>

\* ws.disconnect() returns: a pending cancellation is re-raised, otherwise the
\* loop goes round
LDisconnected(L) ==
    /\ lpc[L] = "disconnect"
    /\ sess' = [sess EXCEPT ![ws[L]].st = "closed"]
    /\ IF pend[L] = "none"
       THEN /\ lpc' = [lpc EXCEPT ![L] = "top"]
            /\ UNCHANGED exit
       ELSE /\ lpc' = [lpc EXCEPT ![L] = "exited"]
            /\ exit' = [exit EXCEPT ![L] = pend[L]]
    /\ UNCHANGED <<iter, ws, idx, pend, cancelAt, output, polled, cycle>>
    /\ UNCHANGED <<regVars, callVars, restVars, pureVars>>

\* ws.disconnect() raises: the finally block is outside every handler, the
\* exception replaces a pending one and leaves the loop
LDisconnectFails(L) ==
    /\ lpc[L] = "disconnect"
    /\ lpc' = [lpc EXCEPT ![L] = "exited"]
    /\ exit' = [exit EXCEPT ![L] = "DisconnectError"]
    /\ UNCHANGED <<iter, ws, sess, idx, pend, cancelAt, output, polled, cycle>>
    /\ UNCHANGED <<regVars, callVars, restVars, pureVars>>

\* the listener's task is cancelled: CancelledError is raised at the await it
\* is suspended in, passes `except asyncio.CancelledError: raise` and reaches
\* the finally block; raised inside the finally block it leaves at once
LCancel(L) ==
    /\ lpc[L] \in ListenerAwaits
    /\ cancelAt[L] = "none"
    /\ cancelAt' = [cancelAt EXCEPT ![L] = lpc[L]]
    /\ IF lpc[L] = "disconnect"
       THEN /\ lpc' = [lpc EXCEPT ![L] = "exited"]
            /\ exit' = [exit EXCEPT ![L] = "CancelledError"]
            /\ UNCHANGED <<pend, sess>>
       ELSE GoFinally(L, "CancelledError")
    /\ UNCHANGED <<iter, ws, idx, output, polled, cycle>>
    /\ UNCHANGED <<regVars, callVars, restVars, pureVars>>

\* the loop over the pairs left one pair early
PollPc_OneShort(i, m) ==
    IF i >= NPairs THEN "hoursleep"
    ELSE IF NeedsInit(m) THEN "fetching"
    ELSE IF ExchangeSymbolOf(m, TradingPairs[i]).err = "none" THEN "fetch"
    ELSE "errsleep"

\* where the poller goes for pair i: get_order_book_data resolves the pair,
\* then requests the order book; past the last pair comes the sleep to the hour
PollPc(i, m) ==
    IF i > NPairs THEN "hoursleep"
    ELSE IF NeedsInit(m) THEN "fetching"
    ELSE IF ExchangeSymbolOf(m, TradingPairs[i]).err = "none" THEN "fetch"
    ELSE "errsleep"

\* polled after the poller moved to pair i with pc: a pair without symbol failed
PollMark(i, pc) == IF pc = "errsleep" THEN [polled EXCEPT ![i] = "fail"] ELSE polled

\* top of `while True`: a cycle starts with the first pair
PStart ==
    /\ lpc[Poller] = "top"
    /\ cycle < MaxCycles
    /\ cycle' = cycle + 1
    /\ idx' = [idx EXCEPT ![Poller] = 1]
    /\ lpc' = [lpc EXCEPT ![Poller] = PollPc(1, symbol_map)]
    /\ polled' = [i \in 1..NPairs |->
                     IF i = 1 /\ PollPc(1, symbol_map) = "errsleep" THEN "fail" ELSE "none"]
    /\ UNCHANGED <<iter, ws, sess, pend, cancelAt, exit, output>>
    /\ UNCHANGED <<regVars, callVars, restVars, pureVars>>

\* the instrument list arrives while get_order_book_data resolves pair idx
PFetchReturn(listing) ==
    /\ lpc[Poller] = "fetching"
    /\ symbol_map' = BuildMap(listing)
    /\ loaded' = TRUE
    /\ LET pc == IF ExchangeSymbolOf(symbol_map', TradingPairs[idx[Poller]]).err = "none"
                 THEN "fetch" ELSE "errsleep"
       IN  /\ lpc' = [lpc EXCEPT ![Poller] = pc]
           /\ polled' = PollMark(idx[Poller], pc)
    /\ UNCHANGED <<iter, ws, sess, idx, pend, cancelAt, exit, output, cycle>>
    /\ UNCHANGED <<callVars, restVars, pureVars>>

\* the instrument list call raises inside get_order_book_data
PFetchFail ==
    /\ lpc[Poller] = "fetching"
    /\ lpc' = [lpc EXCEPT ![Poller] = "errsleep"]
    /\ polled' = [polled EXCEPT ![idx[Poller]] = "fail"]
    /\ UNCHANGED <<iter, ws, sess, idx, pend, cancelAt, exit, output, cycle>>
    /\ UNCHANGED <<regVars, callVars, restVars, pureVars>>

\* the handler of the per-pair try block, with the failure passed on to the
\* outer try block: the cycle is given up
PairFailed_Abort(i) ==
    /\ lpc' = [lpc EXCEPT ![Poller] = "hoursleep"]
    /\ polled' = [polled EXCEPT ![i] = "fail"]

\* the handler of the per-pair try block: log, then sleep 5 s
PairFailed(i) ==
    /\ lpc' = [lpc EXCEPT ![Poller] = "errsleep"]
    /\ polled' = [polled EXCEPT ![i] = "fail"]

\* get_order_book_data ends: the snapshot is normalized and pushed, or the
\* per-pair handler takes the exception
PSnapshot(outcome) ==
    /\ lpc[Poller] = "fetch"
    /\ IF outcome = "ok"
       THEN /\ Len(output) < MaxOut
            /\ output' = Put(output, Update(Poller, "SNAPSHOT", TradingPairs[idx[Poller]],
                                            cycle, idx[Poller], 0))
            /\ polled' = [polled EXCEPT ![idx[Poller]] = "ok"]
            /\ lpc' = [lpc EXCEPT ![Poller] = "pairsleep"]
       ELSE /\ PairFailed(idx[Poller])
            /\ UNCHANGED output
    /\ UNCHANGED <<iter, ws, sess, idx, pend, cancelAt, exit, cycle>>
    /\ UNCHANGED <<regVars, callVars, restVars, pureVars>>

\* the 5 s sleep after a pair is over: the next pair, or the sleep to the hour
PNextPair ==
    /\ lpc[Poller] \in {"pairsleep", "errsleep"}
    /\ idx' = [idx EXCEPT ![Poller] = @ + 1]
    /\ lpc' = [lpc EXCEPT ![Poller] = PollPc(idx[Poller] + 1, symbol_map)]
    /\ polled' = IF idx[Poller] + 1 <= NPairs
                 THEN PollMark(idx[Poller] + 1, PollPc(idx[Poller] + 1, symbol_map))
                 ELSE polled
    /\ UNCHANGED <<iter, ws, sess, pend, cancelAt, exit, output, cycle>>
    /\ UNCHANGED <<regVars, callVars, restVars, pureVars>>

\* the sleep to the top of the hour is over: the loop goes round
PHourSlept ==
    /\ lpc[Poller] = "hoursleep"
    /\ lpc' = [lpc EXCEPT ![Poller] = "top"]
    /\ UNCHANGED <<iter, ws, sess, idx, pend, cancelAt, exit, output, polled, cycle>>
    /\ UNCHANGED <<regVars, callVars, restVars, pureVars>>

\* the poller's task is cancelled: CancelledError passes both
\* `except asyncio.CancelledError: raise` clauses and leaves the loop
PCancel ==
    /\ lpc[Poller] \in PollerAwaits
    /\ cancelAt[Poller] = "none"
    /\ cancelAt' = [cancelAt EXCEPT ![Poller] = lpc[Poller]]
    /\ lpc' = [lpc EXCEPT ![Poller] = "exited"]
    /\ exit' = [exit EXCEPT ![Poller] = "CancelledError"]
    /\ UNCHANGED <<iter, ws, sess, idx, pend, output, polled, cycle>>
    /\ UNCHANGED <<regVars, callVars, restVars, pureVars>>

Init ==
    /\ InitRegistry
    /\ InitCallers
    /\ InitRest
    /\ InitLoops
    /\ InitPure

\* registry users running concurrently
Next ==
    \/ \E c \in Callers, op \in Ops : \E arg \in ArgsOf(op) : Call(c, op, arg)
    \/ \E c \in Callers, listing \in Listings : FetchReturn(c, listing)
    \/ \E c \in Callers : FetchFail(c)
    \/ \E c \in Callers : Return(c)

Spec == Init /\ [][Next]_vars

\* exchange_symbol_associated_to_pair called again and again, never two calls at
\* a time: a call starts only when no other user is inside one
NoneFetching == \A d \in Callers : cpc[d] # "fetching"

CallInTurn(c, pair) == NoneFetching /\ Call(c, "to_symbol", pair)

NextSeq ==
    \/ \E c \in Callers, pair \in UserPairs : CallInTurn(c, pair)
    \/ \E c \in Callers, listing \in Listings : FetchReturn(c, listing)
    \/ \E c \in Callers : FetchFail(c)
    \/ \E c \in Callers : Return(c)

SpecSeq == Init /\ [][NextSeq]_vars

\* users of trading_pair_symbol_map running concurrently, the exchange
\* answering with listings that may hold elements the comprehension cannot read
NextInit ==
    \/ \E c \in Callers : Call(c, "map", "-")
    \/ \E c \in Callers, listing \in RawListings : InitReturn(c, listing)
    \/ \E c \in Callers : FetchFail(c)
    \/ \E c \in Callers : Return(c)

SpecInit == Init /\ [][NextInit]_vars

\* one user of the REST client, calling again and again
NextRest ==
    \/ \E shared \in BOOLEAN : RestCall(shared)
    \/ \E resp \in Responses : RestResponse(resp)
    \/ RestClosed
    \/ RestRetry
    \/ RestDone

SpecRest == Init /\ [][NextRest]_vars

\* one user of the REST client whose task may be cancelled
NextRestCancel ==
    \/ \E shared \in BOOLEAN : RestCall(shared)
    \/ \E resp \in Responses : RestResponse(resp)
    \/ RestClosed
    \/ RestRetry
    \/ RestDone
    \/ \E closed \in BOOLEAN : RestCancel(closed)

SpecRestCancel == Init /\ [][NextRestCancel]_vars

\* the retries of one call of api_call_with_retries, each with its own draw
NextSleep == \E r \in Jitters : RetrySleep(r)

SpecSleep == Init /\ [][NextSleep]_vars

\* the keys a metadata mapping is drawn over: the callers' key, a raw field
\* name, a canonical name, and the name that is both
MetadataKeys == {"trading_pair", "id", "exchange_order_id", "price"}

\* a normalizer called on any raw payload with any such metadata mapping
InitNorm ==
    /\ InitRegistry
    /\ InitCallers
    /\ InitRest
    /\ InitLoops
    /\ slept = <<>>
    /\ \E raw_keys \in SUBSET PayloadKeys : norm = Payload(raw_keys)

NextNorm ==
    \E fn \in Normalizers, timestamp \in Timestamps, metadata_keys \in SUBSET MetadataKeys :
        Normalize(fn, timestamp, metadata_keys)

SpecNorm == InitNorm /\ [][NextNorm]_vars

\* the fallback poller alone: every outcome of every pair, cycle after cycle,
\* and its cancellation
NextPoller ==
    \/ PStart
    \/ \E listing \in LoopListings : PFetchReturn(listing)
    \/ PFetchFail
    \/ \E outcome \in SnapshotOutcomes : PSnapshot(outcome)
    \/ PNextPair
    \/ PHourSlept
    \/ PCancel

SpecPoller == Init /\ [][NextPoller]_vars

\* the diff listener alone: every failure of every step, reconnection and
\* cancellation
NextDiffs ==
    \/ LStart("diffs")
    \/ LCreateFail("diffs")
    \/ LConnected("diffs")
    \/ LStepFails("diffs")
    \/ \E listing \in LoopListings : LFetchReturn("diffs", listing)
    \/ LSubscribed("diffs")
    \/ \E msg \in DiffMessages : DiffMessage(msg)
    \/ LStreamEnds("diffs")
    \/ LSlept("diffs")
    \/ LDisconnected("diffs")
    \/ LDisconnectFails("diffs")
    \/ LCancel("diffs")

SpecDiffs == Init /\ [][NextDiffs]_vars

\* the trade listener and the fallback poller as two tasks: every failure of
\* every step, reconnection, and the cancellation of either task
NextShutdown ==
    \/ LStart("trades")
    \/ LCreateFail("trades")
    \/ LConnected("trades")
    \/ LStepFails("trades")
    \/ \E listing \in LoopListings : LFetchReturn("trades", listing)
    \/ LSubscribed("trades")
    \/ \E msg \in TradeMessages : TradeMessage(msg)
    \/ LStreamEnds("trades")
    \/ LSlept("trades")
    \/ LDisconnected("trades")
    \/ LDisconnectFails("trades")
    \/ LCancel("trades")
    \/ PStart
    \/ \E listing \in LoopListings : PFetchReturn(listing)
    \/ PFetchFail
    \/ \E outcome \in SnapshotOutcomes : PSnapshot(outcome)
    \/ PNextPair
    \/ PHourSlept
    \/ PCancel

SpecShutdown == Init /\ [][NextShutdown]_vars

\* the messages the session life cycle tells apart: one that is pushed, one
\* that is skipped, one that raises
SessionDiffMessages ==
    {m \in DiffMessages : m.method # "ORDERS_SNAPSHOT" /\ m.symbol # "ETH/USDT"}
SessionTradeMessages ==
    {m \in TradeMessages : m.symbol # "ETH/USDT" /\ Len(m.trades) <= 1}

\* no other listener task of the data source has been started
Sole(L) == \A M \in Listeners \ {L} : lpc[M] = "top" /\ iter[M] = 0

\* a data source running one listener task, either of the two: connection,
\* subscription, streaming, every failure of every step, reconnection and
\* cancellation
NextSessions ==
    \/ \E L \in Listeners : Sole(L) /\ LStart(L)
    \/ \E L \in Listeners : Sole(L) /\ LCreateFail(L)
    \/ \E L \in Listeners : LConnected(L)
    \/ \E L \in Listeners : LStepFails(L)
    \/ \E L \in Listeners, listing \in LoopListings : LFetchReturn(L, listing)
    \/ \E L \in Listeners : LSubscribed(L)
    \/ \E msg \in SessionDiffMessages : DiffMessage(msg)
    \/ \E msg \in SessionTradeMessages : TradeMessage(msg)
    \/ \E L \in Listeners : LStreamEnds(L)
    \/ \E L \in Listeners : LSlept(L)
    \/ \E L \in Listeners : LDisconnected(L)
    \/ \E L \in Listeners : LDisconnectFails(L)
    \/ \E L \in Listeners : LCancel(L)

SpecSessions == Init /\ [][NextSessions]_vars

\* the trade listener on one connection, from the creation of the session to
\* its disconnection: every message the stream can carry, every failure of
\* every step, and cancellation
NextTrades ==
    \/ LStart("trades")
    \/ LConnected("trades")
    \/ LStepFails("trades")
    \/ \E listing \in LoopListings : LFetchReturn("trades", listing)
    \/ LSubscribed("trades")
    \/ \E msg \in TradeMessages : TradeMessage(msg)
    \/ LStreamEnds("trades")
    \/ LSlept("trades")
    \/ LCancel("trades")

SpecTrades == Init /\ [][NextTrades]_vars

\* the three producers of one output queue as three tasks: the diff listener
\* on its first connection with every message the stream can carry, the trade
\* listener and the poller pushing well-formed updates beside it
NextLoops ==
    \/ \E L \in Listeners : LStart(L)
    \/ \E L \in Listeners : LConnected(L)
    \/ \E listing \in LoopListings : LFetchReturn("diffs", listing)
    \/ LFetchReturn("trades", FullListing)
    \/ \E L \in Listeners : LSubscribed(L)
    \/ \E msg \in DiffMessages : DiffMessage(msg)
    \/ \E msg \in PlainTradeMessages : TradeMessage(msg)
    \/ PStart
    \/ PFetchReturn(FullListing)
    \/ PSnapshot("ok")
    \/ PNextPair
    \/ PHourSlept

SpecLoops == Init /\ [][NextLoops]_vars

(***************************************************************************)
(* Claims about the symbol registry.                                       *)
(***************************************************************************)

\* C1: users that meet the empty map at the same time share one instrument-list
\* fetch (never two fetches in flight), and the users that were handed the map
\* were handed the same one.
C1_SingleFlight ==
    /\ Cardinality({c \in Callers : cpc[c] = "fetching"}) <= 1
    /\ \A c1, c2 \in Callers :
          (/\ cpc[c1] = "done" /\ cop[c1] = "map" /\ cres[c1].err = "none"
           /\ cpc[c2] = "done" /\ cop[c2] = "map" /\ cres[c2].err = "none")
          => cres[c1].map = cres[c2].map

\* C7: every pair that is a value of the map resolves to a symbol that
\* resolves back to the same pair.
C7_RoundTrip ==
    \A p \in Values(symbol_map) :
        LET s == ExchangeSymbolOf(symbol_map, p)
        IN  /\ s.err = "none"
            /\ TradingPairOf(symbol_map, s.symbol) = [err |-> "none", pair |-> p]

\* two symbols of the map share a pair, and a user resolved that pair
C7_Witness ==
    \E i, j \in 1..Len(symbol_map), c \in Callers :
        /\ i # j
        /\ symbol_map[i].pair = symbol_map[j].pair
        /\ cpc[c] = "done" /\ cop[c] = "to_symbol"
        /\ carg[c] = symbol_map[i].pair
        /\ cres[c].err = "none"

\* C8 (as stated): no step of trading_pair_associated_to_exchange_symbol issues
\* an instrument-list fetch, and a step that ends in the unknown-symbol error
\* leaves the map as it was.
C8_NeverFetches ==
    [][\A c \in Callers :
          (cop'[c] = "to_pair" /\ cpc'[c] # cpc[c])
          => /\ cpc'[c] # "fetching"
             /\ cres'[c].err = "KeyError" => symbol_map' = symbol_map]_vars

\* C8 (amended): a call of trading_pair_associated_to_exchange_symbol issues an
\* instrument-list fetch exactly when the map is empty at the call; on a
\* non-empty map it finishes at once on that map, which it leaves unchanged, with
\* the pair of a known symbol and the unknown-symbol error for any other.
C8_FetchesOnlyWhenEmpty ==
    [][\A c \in Callers :
          (cop'[c] = "to_pair" /\ cpc[c] = "idle" /\ cpc'[c] # "idle")
          => /\ symbol_map' = symbol_map
             /\ (cpc'[c] = "fetching") <=> (symbol_map = <<>>)
             /\ symbol_map # <<>> =>
                   /\ cpc'[c] = "done"
                   /\ cres'[c].err = (IF carg'[c] \in Keys(symbol_map)
                                      THEN "none" ELSE "KeyError")]_vars

\* one user of the reverse lookup is fetching for an empty-map call while
\* another got the unknown-symbol error from the populated map
C8_Witness ==
    \E c, d \in Callers :
        /\ cop[c] = "to_pair" /\ cpc[c] = "fetching"
        /\ cop[d] = "to_pair" /\ cpc[d] = "done"
        /\ cres[d].err = "KeyError"
        /\ symbol_map # <<>>
        /\ ~HasKey(symbol_map, carg[d])

\* C9: over calls of exchange_symbol_associated_to_pair made one after the other,
\* once the instrument listing has been returned no call fetches it again.
C9_SingleLazyLoad ==
    [][loaded => \A c \in Callers : cpc'[c] = "fetching" => cpc[c] = "fetching"]_vars

\* C10: once the map is populated, no step changes it.
C10_WriteOnce == [][symbol_map # <<>> => symbol_map' = symbol_map]_vars

(***************************************************************************)
(* Claims about the retrying REST client.                                  *)
(***************************************************************************)

\* C2: try_count starts at 0, is one less than the number of attempts made and
\* never exceeds API_MAX_RETRIES, so at most API_MAX_RETRIES + 1 attempts are
\* made; every attempt before the last one failed; the call raises only after
\* API_MAX_RETRIES + 1 failed attempts, with the status and payload of the last
\* one, and it returns the payload of the first attempt that did not fail.
C2_RetryBound ==
    /\ try_count \in 0..API_MAX_RETRIES
    /\ Len(rhist) <= API_MAX_RETRIES + 1
    /\ rpc = "request" => Len(rhist) = try_count
    /\ rpc = "sleeping" => Len(rhist) = try_count
    /\ rpc \in {"returned", "raised"} => Len(rhist) = try_count + 1
    /\ \A i \in 1..(Len(rhist) - 1) : AttemptFailed(rhist[i])
    /\ rpc = "sleeping" => AttemptFailed(rhist[Len(rhist)])
    /\ rpc = "raised" =>
          /\ Len(rhist) = API_MAX_RETRIES + 1
          /\ AttemptFailed(rhist[Len(rhist)])
          /\ rout = [error |-> rhist[Len(rhist)].parsed_response,
                     status |-> rhist[Len(rhist)].http_status]
    /\ rpc = "returned" =>
          /\ ~AttemptFailed(rhist[Len(rhist)])
          /\ rout = rhist[Len(rhist)].parsed_response

\* the call has failed for good, after a last attempt that got a response
C2_Witness ==
    /\ rpc = "raised"
    /\ try_count = API_MAX_RETRIES
    /\ rhist[Len(rhist)].http_status = "404"

\* the classification of an attempt as the specification words it: the
\* transport failed, or the body gave no structured data (it is not JSON, or
\* it is the JSON value null), or the status is outside {200, 201} and the
\* body has no error field
ClassifiedFailed(resp) ==
    \/ resp.transport = "fail"
    \/ resp.body \notin {"json", "json_error"}
    \/ resp.status \notin {"200", "201"} /\ resp.body # "json_error"

\* C13: an attempt counts as failed exactly when the transport failed, the
\* body gave no structured data, or the status is outside {200, 201} and the
\* body has no error field; a first response with status 200 and an error
\* field is the call's result, with no retry.
C13_Classification ==
    [][/\ \A resp \in Responses :
              RestResponse(resp) =>
                  (AttemptFailed(rhist'[Len(rhist')]) <=> ClassifiedFailed(resp))
       /\ (/\ rhist' # <<>>
           /\ rhist'[1].http_status = "200"
           /\ rhist'[1].parsed_response = "json_error")
          => /\ Len(rhist') = 1
             /\ try_count' = 0
             /\ rpc' \in {"closing", "returned"}
             /\ rpc' = "returned" => rout' = "json_error"]_vars

\* a call answered 200 with an error field has returned that body after one
\* attempt
C13_Witness ==
    /\ rpc = "returned"
    /\ Len(rhist) = 1
    /\ try_count = 0
    /\ rhist[1].http_status = "200"
    /\ rhist[1].parsed_response = "json_error"
    /\ rout = "json_error"

\* C14: once a call of api_call_with_retries has ended - returned, raised or
\* cancelled - and while it sleeps between attempts, no private session it
\* created is open.
C14_PrivateSessionClosed ==
    rpc \in {"idle", "sleeping", "returned", "raised", "cancelled"} => ropen = 0

\* C11: an initialization that fails, because the instrument-list call
\* raised after its retries or because an element of the listing could not be
\* read, leaves the Symbol Map exactly as it was: the map changes only in a
\* step that ends an initialization without error.
C11_InitAtomic ==
    [][/\ \A c \in Callers :
              (/\ cpc[c] = "fetching" /\ cpc'[c] = "done"
               /\ cres'[c].err \in {"XeggexAPIError", "KeyError(listing)"})
              => symbol_map' = symbol_map
       /\ symbol_map' # symbol_map =>
              \E c \in Callers :
                  /\ cpc[c] = "fetching" /\ cpc'[c] = "done"
                  /\ cres'[c].err \notin {"XeggexAPIError", "KeyError(listing)"}]_vars

\* an initialization failed on an unreadable element while the map was
\* populated, and the populated map is still there
C11_Witness ==
    \E c \in Callers :
        /\ cpc[c] = "done"
        /\ cres[c].err = "KeyError(listing)"
        /\ symbol_map # <<>>

(***************************************************************************)
(* Claims about the three loops.                                           *)
(***************************************************************************)

\* the suspension points the shutdown contract names
CancelPoints == {"connect", "subscribe", "read", "sleep", "pairsleep", "errsleep", "hoursleep"}

\* C3: a loop cancelled at connect, subscribe, the socket read, the
\* error-recovery sleep, the inter-pair sleep or the hourly sleep sleeps no
\* more and enters no error-recovery branch; what leaves the loop is the
\* cancellation, and a listener's session was disconnected before it left.
C3_CancellationHonoured ==
    \A L \in Loops :
        cancelAt[L] \in CancelPoints =>
            /\ lpc[L] \in {"disconnect", "exited"}
            /\ lpc[L] = "exited" =>
                  /\ exit[L] = "CancelledError"
                  /\ L \in Listeners => (ws[L] # 0 /\ sess[ws[L]].st = "closed")

\* C4: a listener loop stops only when it was cancelled: no failure of a step,
\* creating the session and disconnect included, ends the loop.
C4_OnlyCancellationStops ==
    \A L \in Listeners : lpc[L] = "exited" => cancelAt[L] # "none"

\* the poller's Snapshot update of pair i in cycle c
PolledUpdate(c, i) == Update(Poller, "SNAPSHOT", TradingPairs[i], c, i, 0)

InOutput(u) == \E j \in 1..Len(output) : output[j] = u

\* C5: when a cycle of the poller reaches the sleep to the hour every
\* configured pair was fetched in that cycle, whichever pairs failed, and each
\* pair whose fetch and normalization did not fail has its Snapshot update on
\* the output queue.
C5_PartialFailureIsolation ==
    lpc[Poller] = "hoursleep" =>
        \A i \in 1..NPairs :
            /\ polled[i] \in {"ok", "fail"}
            /\ polled[i] = "ok" <=> InOutput(PolledUpdate(cycle, i))

\* a cycle is over in which the second of three pairs failed and the first
\* and the third were pushed
C5_Witness ==
    /\ lpc[Poller] = "hoursleep"
    /\ polled = <<"ok", "fail", "ok">>
    /\ InOutput(PolledUpdate(cycle, 1))
    /\ InOutput(PolledUpdate(cycle, 3))
    /\ ~InOutput(PolledUpdate(cycle, 2))

\* what the poller has pushed in cycle c
PolledIn(c) == SelectSeq(output, LAMBDA u : u.src = Poller /\ u.conn = c)

\* within a cycle the pairs are taken in the configured order: the pairs
\* before the current one have an outcome, those after it have none, and
\* what was pushed in a cycle is in pair order without a pair twice
CycleInOrder ==
    /\ lpc[Poller] \in {"fetching", "fetch"} =>
          idx[Poller] \in 1..NPairs /\ polled[idx[Poller]] = "none"
    /\ lpc[Poller] \in {"pairsleep", "errsleep"} =>
          /\ idx[Poller] \in 1..NPairs
          /\ polled[idx[Poller]] = (IF lpc[Poller] = "pairsleep" THEN "ok" ELSE "fail")
    /\ lpc[Poller] \in {"fetching", "fetch", "pairsleep", "errsleep"} =>
          /\ \A i \in 1..(idx[Poller] - 1) : polled[i] \in {"ok", "fail"}
          /\ \A i \in (idx[Poller] + 1)..NPairs : polled[i] = "none"
    /\ (lpc[Poller] = "hoursleep" \/ (lpc[Poller] = "top" /\ cycle > 0)) =>
          /\ idx[Poller] = NPairs + 1
          /\ \A i \in 1..NPairs : polled[i] \in {"ok", "fail"}
    /\ \A c \in 1..cycle :
          /\ \A j \in 1..Len(PolledIn(c)) :
                /\ PolledIn(c)[j].kind = "SNAPSHOT"
                /\ PolledIn(c)[j].n \in 1..NPairs
                /\ PolledIn(c)[j].pair = TradingPairs[PolledIn(c)[j].n]
          /\ \A j, k \in 1..Len(PolledIn(c)) : j < k => PolledIn(c)[j].n < PolledIn(c)[k].n

\* C21: a cycle of the poller takes the configured pairs in order, each once;
\* a pair gets its outcome once and keeps it to the end of the cycle; the
\* poller goes on to the next pair only out of the 5 s sleep after the pair,
\* which follows a pushed snapshot and a failure alike; at most one Snapshot
\* update per pair is pushed in a cycle; the sleep to the hour starts only
\* out of the sleep after the last pair, and a cycle starts only at the top
\* of the loop, after the sleep to the hour of the cycle before
C21_CycleShape ==
    [][/\ CycleInOrder'
       /\ \A i \in 1..NPairs :
             polled'[i] # polled[i] =>
                 \/ cycle' = cycle + 1 /\ (polled'[i] = "none" \/ i = 1)
                 \/ /\ polled[i] = "none" /\ polled'[i] \in {"ok", "fail"}
                    /\ idx'[Poller] = i
                    /\ lpc'[Poller] = (IF polled'[i] = "ok" THEN "pairsleep" ELSE "errsleep")
       /\ idx'[Poller] # idx[Poller] =>
             \/ cycle' = cycle + 1 /\ idx'[Poller] = 1
             \/ /\ lpc[Poller] \in {"pairsleep", "errsleep"}
                /\ idx'[Poller] = idx[Poller] + 1
                /\ cycle' = cycle
       /\ (lpc[Poller] \in {"pairsleep", "errsleep"} /\ lpc'[Poller] # lpc[Poller]) =>
             \/ lpc'[Poller] = "exited"
             \/ idx'[Poller] = idx[Poller] + 1
       /\ (lpc'[Poller] = "hoursleep" /\ lpc[Poller] # "hoursleep") =>
             lpc[Poller] \in {"pairsleep", "errsleep"} /\ idx[Poller] = NPairs
       /\ cycle' # cycle =>
             /\ cycle' = cycle + 1
             /\ lpc[Poller] = "top"
       /\ (lpc'[Poller] = "top" /\ lpc[Poller] # "top") => lpc[Poller] = "hoursleep"
       /\ Len(PolledIn(cycle')) > Len(PolledIn(cycle)) =>
             /\ cycle' = cycle
             /\ Len(PolledIn(cycle')) = Len(PolledIn(cycle)) + 1
             /\ lpc[Poller] = "fetch" /\ lpc'[Poller] = "pairsleep"
             /\ output'[Len(output')] = PolledUpdate(cycle, idx[Poller])
      ]_vars

\* a cycle is over and its sleep to the hour too: the first pair was pushed,
\* the second failed, the third was pushed
C21_Witness ==
    /\ lpc[Poller] = "top"
    /\ cycle = 1
    /\ idx[Poller] = NPairs + 1
    /\ polled = <<"ok", "fail", "ok">>
    /\ Len(PolledIn(1)) = 2

\* C6: the updates of one connection of the diff listener are on the output
\* queue in the order their messages were received, none of them twice,
\* whatever the trade listener and the poller push in between.
C6_DiffOrder ==
    \A i, j \in 1..Len(output) :
        (/\ i < j
         /\ output[i].src = "diffs" /\ output[j].src = "diffs"
         /\ output[i].conn = output[j].conn)
        => /\ output[i].n < output[j].n
           /\ output[j].n <= sess[output[j].conn].recv

\* two order-book updates of one connection with another producer's update
\* pushed between them
C6_Witness ==
    \E i, j, k \in 1..Len(output) :
        /\ i < j /\ j < k
        /\ output[i].src = "diffs" /\ output[k].src = "diffs"
        /\ output[i].conn = output[k].conn
        /\ output[j].src # "diffs"
        /\ lpc["trades"] = "read" /\ lpc[Poller] # "top"

\* a step in which loop L looked pair idx'[L] up in the populated map and
\* exchange_symbol_associated_to_pair raised for want of a symbol: the step
\* that ends connect, a subscribe, a pair's sleep or the instrument-list fetch
UnknownPairRaised(L) ==
    /\ idx'[L] \in 1..NPairs
    /\ ~NeedsInit(symbol_map')
    /\ ExchangeSymbolOf(symbol_map', TradingPairs[idx'[L]]).err = "ValueError"
    /\ cancelAt'[L] = cancelAt[L]
    /\ \/ lpc[L] = "fetching" /\ lpc'[L] # "fetching" /\ symbol_map' # symbol_map
       \/ /\ L \in Listeners
          /\ \/ lpc[L] = "connect" /\ sess[ws[L]].st = "new" /\ sess'[ws[L]].st = "open"
             \/ lpc[L] = "subscribe" /\ idx'[L] = idx[L] + 1
       \/ /\ L = Poller
          /\ \/ lpc[L] = "top" /\ cycle' = cycle + 1
             \/ lpc[L] \in {"pairsleep", "errsleep"} /\ idx'[L] = idx[L] + 1

\* C12: the lookup failure of a configured pair that has no entry in the
\* Symbol Map goes to the caller of the loop that referenced the pair: the loop
\* is left with the error, it does not sleep to look the pair up again.
C12_UnknownPairPropagates ==
    [][\A L \in Loops :
          UnknownPairRaised(L) => (lpc'[L] = "exited" /\ exit'[L] = "ValueError")]_vars

\* a session nothing has been done with yet
Fresh(s) == s.st = "new" /\ s.subs = <<>> /\ s.recv = 0 /\ s.disc = 0

\* the session a listener is working on: connected before anything is
\* subscribed, subscribed pair by pair in the configured order, read only with
\* every pair subscribed, and each earlier session of the listener closed
SessionInOrder(L) ==
    /\ \A i \in 1..Len(sess) :
          /\ Len(sess[i].subs) <= NPairs
          /\ \A j \in 1..Len(sess[i].subs) : sess[i].subs[j] = j
          /\ sess[i].subs # <<>> => sess[i].st # "new"
          /\ sess[i].recv > 0 => Len(sess[i].subs) = NPairs
    /\ lpc[L] = "connect" => Fresh(sess[ws[L]])
    /\ lpc[L] \in {"fetching", "subscribe"} =>
          /\ sess[ws[L]].st = "open" /\ sess[ws[L]].disc = 0
          /\ idx[L] \in 1..NPairs
          /\ Len(sess[ws[L]].subs) = idx[L] - 1
          /\ sess[ws[L]].recv = 0
    /\ lpc[L] = "read" =>
          /\ sess[ws[L]].st = "open" /\ sess[ws[L]].disc = 0
          /\ Len(sess[ws[L]].subs) = NPairs
    /\ lpc[L] \in {"connect", "fetching", "subscribe", "read"} =>
          \A i \in 1..(ws[L] - 1) : sess[i].owner = L => sess[i].st = "closed"

\* the message raises in the listener that reads it
MessageFails(L, msg) ==
    /\ msg.params
    /\ \/ L = "diffs" /\ msg.method \in {"ORDERS_SNAPSHOT", "ORDERS_UPDATE"}
             /\ (~msg.ts_ok \/ ~HasKey(symbol_map, msg.symbol))
       \/ L = "trades" /\ msg.method = "TRADES_UPDATE"
             /\ (~HasKey(symbol_map, msg.symbol) \/ \E k \in 1..Len(msg.trades) : ~msg.trades[k])

\* C18: in every iteration of a listener the session is connected first, then
\* subscribed once per configured pair in order, then read; every iteration
\* starts on a newly created session with the earlier ones closed; a message
\* that raises ends the reading of its session, which is disconnected next,
\* and no message is read from a session again once its listener left the
\* stream
C18_SessionOrder ==
    [][/\ \A L \in Listeners : SessionInOrder(L)'
       /\ \A L \in Listeners :
             (lpc[L] = "top" /\ lpc'[L] = "connect") =>
                 ws'[L] = Len(sess) + 1 /\ Len(sess') = Len(sess) + 1
       /\ \A msg \in SessionDiffMessages :
             (DiffMessage(msg) /\ MessageFails("diffs", msg)) => lpc'["diffs"] = "sleep"
       /\ \A msg \in SessionTradeMessages :
             (TradeMessage(msg) /\ MessageFails("trades", msg)) => lpc'["trades"] = "sleep"
       /\ \A L \in Listeners :
             (lpc[L] = "sleep" /\ lpc'[L] # "sleep" /\ ws[L] # 0) =>
                 /\ lpc'[L] = "disconnect"
                 /\ sess'[ws[L]].disc = sess[ws[L]].disc + 1
       /\ \A i \in 1..Len(sess) :
             sess'[i].recv # sess[i].recv =>
                 /\ i = ws[sess[i].owner]
                 /\ lpc[sess[i].owner] = "read"
      ]_vars

\* a listener reads from its second session, with every pair subscribed on it,
\* after a message raised on the first
C18_Witness ==
    \E L \in Listeners :
        /\ lpc[L] = "read"
        /\ ws[L] = 2
        /\ sess[1].owner = L /\ sess[1].recv > 0 /\ sess[1].st = "closed"
        /\ iter[L] = 2
        /\ cancelAt[L] = "none"
        /\ Len(sess[2].subs) = NPairs

\* C22: the finally block of a listener's iteration disconnects the session
\* that iteration created: it never runs with no session created, and no
\* session gets a second disconnect (an iteration that disconnects a session
\* left over from an earlier iteration gives it one, since every iteration
\* ends in the finally block)
C22_DisconnectOwnSession ==
    /\ \A L \in Listeners : exit[L] # "UnboundLocalError"
    /\ \A L \in Listeners : lpc[L] = "disconnect" => ws[L] # 0
    /\ \A i \in 1..Len(sess) : sess[i].disc <= 1

\* the message has params and a method tag its listener acts on
Tagged(L, msg) ==
    /\ msg.params
    /\ \/ L = "diffs" /\ msg.method \in {"ORDERS_SNAPSHOT", "ORDERS_UPDATE"}
       \/ L = "trades" /\ msg.method = "TRADES_UPDATE"

\* what a listener has pushed so far
PushedBy(L, q) == SelectSeq(q, LAMBDA u : u.src = L)

\* the step pushes exactly one update, of the kind of the message's tag
PushesOne(msg) ==
    /\ Len(output') = Len(output) + 1
    /\ SubSeq(output', 1, Len(output)) = output
    /\ output'[Len(output')].src = "diffs"
    /\ output'[Len(output')].kind =
          (IF msg.method = "ORDERS_SNAPSHOT" THEN "SNAPSHOT" ELSE "DIFF")
    /\ output'[Len(output')].n = sess'[ws["diffs"]].recv

\* C19 as stated: the diff listener pushes exactly one update, Snapshot or
\* Diff by the tag, for each message it receives that has params and an
\* order-book tag, and nothing for any other message
C19_OnePerTaggedMessage ==
    [][\A msg \in DiffMessages :
          DiffMessage(msg) =>
              IF Tagged("diffs", msg) THEN PushesOne(msg) ELSE output' = output
      ]_vars

\* C19: the diff listener pushes exactly one update, Snapshot or Diff by the
\* tag and carrying the resolved pair, for each message it receives that has
\* params, an order-book tag, a timestamp that parses and a symbol of the
\* map; a tagged message without these raises, pushes nothing and ends the
\* reading of the session; a message with another tag or without params
\* pushes nothing and the reading goes on; nothing else pushes for the listener
C19_OnePerWellFormedMessage ==
    [][/\ \A msg \in DiffMessages :
             DiffMessage(msg) =>
                 IF Tagged("diffs", msg) /\ ~MessageFails("diffs", msg)
                 THEN /\ PushesOne(msg)
                      /\ <<msg.symbol, output'[Len(output')].pair>> \in
                             {<<symbol_map[i].symbol, symbol_map[i].pair>> : i \in 1..Len(symbol_map)}
                      /\ lpc'["diffs"] = "read"
                 ELSE /\ output' = output
                      /\ lpc'["diffs"] = IF Tagged("diffs", msg) THEN "sleep" ELSE "read"
       /\ PushedBy("diffs", output') # PushedBy("diffs", output)
             => \E msg \in DiffMessages : DiffMessage(msg)
      ]_vars

\* the diff listener pushed the first message of its session, and the second,
\* tagged but raising, left the queue as it was
C19_Witness ==
    /\ lpc["diffs"] = "sleep"
    /\ ws["diffs"] # 0
    /\ sess[ws["diffs"]].recv = 2
    /\ Len(PushedBy("diffs", output)) = 1
    /\ PushedBy("diffs", output)[1].n = 1

\* the number of trades at the head of the list whose timestamps parse
LeadingOk(trades) ==
    IF \A k \in 1..Len(trades) : trades[k]
    THEN Len(trades)
    ELSE (CHOOSE k \in 1..Len(trades) : ~trades[k] /\ \A j \in 1..(k - 1) : trades[j]) - 1

\* the step pushes one Trade update for each of the first m trades of the
\* message, in the order listed, tagged with the pair of the message's symbol
PushesTrades(msg, m) ==
    /\ Len(output') = Len(output) + m
    /\ SubSeq(output', 1, Len(output)) = output
    /\ \A k \in 1..m :
          /\ output'[Len(output) + k].src = "trades"
          /\ output'[Len(output) + k].kind = "TRADE"
          /\ output'[Len(output) + k].n = sess'[ws["trades"]].recv
          /\ output'[Len(output) + k].k = k
          /\ <<msg.symbol, output'[Len(output) + k].pair>> \in
                 {<<symbol_map[i].symbol, symbol_map[i].pair>> : i \in 1..Len(symbol_map)}

\* C20 as stated: the trade listener pushes exactly one Trade update for each
\* trade of a received trade-update message, in the order listed and tagged
\* with the pair of the message's symbol, and nothing for any other message
C20_OnePerTrade ==
    [][\A msg \in TradeMessages :
          TradeMessage(msg) =>
              IF Tagged("trades", msg)
              THEN PushesTrades(msg, Len(msg.trades))
              ELSE output' = output
      ]_vars

\* C20: for a received trade-update message with params whose symbol is in
\* the map the trade listener pushes exactly one Trade update for each trade
\* listed before the first whose timestamp does not parse, in the order
\* listed and tagged with the pair of the symbol; with such a trade, or with
\* a symbol that is not in the map, the message raises and ends the reading
\* of the session; a message with another tag or without params pushes
\* nothing; nothing else pushes for the listener
C20_OnePerParsedTrade ==
    [][/\ \A msg \in TradeMessages :
             TradeMessage(msg) =>
                 /\ IF Tagged("trades", msg) /\ HasKey(symbol_map, msg.symbol)
                    THEN PushesTrades(msg, LeadingOk(msg.trades))
                    ELSE output' = output
                 /\ lpc'["trades"] = IF MessageFails("trades", msg) THEN "sleep" ELSE "read"
       /\ PushedBy("trades", output') # PushedBy("trades", output)
             => \E msg \in TradeMessages : TradeMessage(msg)
      ]_vars

\* the trade listener pushed the two trades of one message in the order
\* listed, and of a later message the trade before the one that raised
C20_Witness ==
    /\ lpc["trades"] = "sleep"
    /\ Len(output) = 3
    /\ \A i \in 1..3 : output[i].src = "trades"
    /\ output[1].n = 1 /\ output[1].k = 1
    /\ output[2].n = 1 /\ output[2].k = 2
    /\ output[3].n = 2 /\ output[3].k = 1

(***************************************************************************)
(* Claims about the normalizers and the retry sleep.                       *)
(***************************************************************************)

\* C15: in the result of each of the three normalizers every key that is both
\* in the raw payload and in the metadata holds the metadata's value, the keys
\* exchange_order_id, trade_type, price and amount of the trade normalizer
\* included.
C15_MetadataWins ==
    norm.fn # "none" =>
        \A k \in PayloadKeys :
            (Has(norm.msg, k) /\ Has(norm.metadata, k))
            => norm.out.content[k] = norm.metadata[k]

\* C16: every normalizer returns an update of its kind with the timestamp it
\* was given; the content of a Trade update has exchange_order_id, trade_type,
\* price and amount equal to the raw payload's id, side, price and quantity
\* (what msg.get returns for them), the metadata being a mapping that carries
\* none of these four raw fields, as the pair metadata of the callers.
C16_TradeShape ==
    norm.fn # "none" =>
        /\ norm.out.timestamp = norm.timestamp
        /\ norm.out.message_type =
              CASE norm.fn = "snapshot" -> "SNAPSHOT"
                [] norm.fn = "diff" -> "DIFF"
                [] norm.fn = "trade" -> "TRADE"
        /\ (/\ norm.fn = "trade"
            /\ \A k \in RawTradeKeys : ~Has(norm.metadata, k))
           => /\ norm.out.content["exchange_order_id"] = Get(norm.msg, "id")
              /\ norm.out.content["trade_type"] = Get(norm.msg, "side")
              /\ norm.out.content["price"] = Get(norm.msg, "price")
              /\ norm.out.content["amount"] = Get(norm.msg, "quantity")

\* a raw trade with all four fields, and with stale canonical keys of its own,
\* normalized with the pair metadata
C16_Witness ==
    /\ norm.fn # "none"
    /\ norm.fn = "trade"
    /\ norm.msg = DictOf("raw", RawTradeKeys \cup {"exchange_order_id", "amount"})
    /\ norm.metadata = DictOf("metadata", {"trading_pair"})
    /\ norm.out.content["exchange_order_id"] = [from |-> "raw", key |-> "id"]
    /\ norm.out.content["amount"] = [from |-> "raw", key |-> "quantity"]
    /\ norm.out.content["trading_pair"] = [from |-> "metadata", key |-> "trading_pair"]

\* C17: the i-th retry of a call sleeps 2 + jitter * (1 + i^i) seconds with
\* jitter in [1.01, 1.10] (in hundredths here), and the sleeps of successive
\* retries are strictly increasing whatever jitter each retry draws.
C17_BackoffIncreasing ==
    /\ Len(slept) <= API_MAX_RETRIES
    /\ \A i \in 1..Len(slept) :
          /\ slept[i] >= 200 + 101 * (1 + Pow(i, i))
          /\ slept[i] <= 200 + 110 * (1 + Pow(i, i))
    /\ \A i, j \in 1..Len(slept) : i < j => slept[i] < slept[j]

\* all retries made, the first with the largest jitter and the second with
\* the smallest
C17_Witness ==
    /\ Len(slept) = API_MAX_RETRIES
    /\ slept[1] = 200 + 110 * 2
    /\ slept[2] = 200 + 101 * 5

====
